---- MODULE Spec2Model ----
(***************************************************************************)
(* Bath-O-Meter front end (src/src/App.tsx): the capture-and-classify      *)
(* cycle of the App component and the three React state flags it drives.   *)
(*                                                                         *)
(* JavaScript is single threaded and runs each piece of synchronous code   *)
(* to completion: `running` names the invocation of captureAndCheck that   *)
(* is executing synchronous code (NoTask between events).  An invocation   *)
(* gives up the thread only at its three awaits (lines 39, 40 and 47).     *)
(* The states with running = NoTask are the ones React renders and the     *)
(* user or a test can observe.                                             *)
(***************************************************************************)
EXTENDS Naturals, FiniteSets

\* Number of invocations of captureAndCheck a behaviour may hold.
MaxAttempts == 3

NULL == "null"
NoTask == 0
Tasks == 1..MaxAttempts

\* The two user-facing messages (lines 32 and 51).
CaptureErrorMsg == "Could not capture image from webcam."
BackendErrorMsg == "Failed to connect to the Bath-O-Meter backend."

\* What getScreenshot() may return: a base64 data URL, or null (line 30).
Frames == {"data:image/jpeg;base64,/9j/4AAQSkZJRg"}
Screenshots == Frames \cup {NULL}

\* A response body, HygieneResult (lines 7-12), named by its label.
HygieneResult == {"fresh_clean", "needs_bath"}

\* The low-level errors the awaited promises may reject with.
FetchError == "TypeError: Failed to fetch"
BlobError == "TypeError: body stream already read"
NetworkError == "AxiosError: Network Error"
StatusError == "AxiosError: Request failed with status code 500"
PostErrors == {NetworkError, StatusError}
HandlerError == "TypeError: thrown inside the try or catch block"

\* What the POST settles with: a 2xx response carrying a body, or a rejection.
PostOutcomes ==
    {[ok |-> TRUE, data |-> d, err |-> NULL] : d \in HygieneResult}
        \cup {[ok |-> FALSE, data |-> NULL, err |-> e] : e \in PostErrors}

VARIABLES
    webcamRef,   \* webcamRef.current is non-null (line 18, attached at line 70)
    result,      \* useState<HygieneResult | null>(null)   (line 19)
    loading,     \* useState<boolean>(false)               (line 20)
    error,       \* useState<string | null>(null)          (line 21)
    task,        \* the invocations of captureAndCheck: position and locals
    nAttempts,   \* how many invocations were made
    running,     \* the invocation executing synchronous code, or NoTask
    console      \* the low-level errors written by console.error (line 50)

vars == <<webcamRef, result, loading, error, task, nAttempts, running, console>>

\* An invocation that has not been made yet.  imageSrc, apiResponse and err are
\* the locals of lines 30, 47 and 49; before, fetches, posts and outcome record
\* what the invocation saw and did (history, never read by the code).
IdleTask ==
    [pc |-> "idle", imageSrc |-> NULL, apiResponse |-> NULL, err |-> NULL,
     before |-> NULL, fetches |-> 0, posts |-> 0, outcome |-> "none"]

\* The positions at which an invocation is suspended at an await.
Awaiting == {"awaitFetch", "awaitBlob", "awaitPost"}
\* The positions of an invocation that passed line 24 and has not returned.
InProgress == {"enter", "capture", "noframe", "fetch", "store", "catch", "finally"}
                  \cup Awaiting

Init ==
    /\ webcamRef = FALSE
    /\ result = NULL
    /\ loading = FALSE
    /\ error = NULL
    /\ task = [t \in Tasks |-> IdleTask]
    /\ nAttempts = 0
    /\ running = NoTask
    /\ console = {}

\* React attaches the Webcam instance to the ref when it commits (line 70).
Mount ==
    /\ running = NoTask
    /\ ~webcamRef
    /\ webcamRef' = TRUE
    /\ UNCHANGED <<result, loading, error, task, nAttempts, running, console>>

\* React clears the ref when the Webcam element is removed.
Unmount ==
    /\ running = NoTask
    /\ webcamRef
    /\ webcamRef' = FALSE
    /\ UNCHANGED <<result, loading, error, task, nAttempts, running, console>>

\* Variant: the button is never disabled.
ButtonNeverDisabled == FALSE

\* The button of lines 84-91 is disabled while loading is rendered true.
ButtonDisabled == loading

\* Variant: the flags are set before the guard of line 24 is tested.
InvokeSetBeforeGuard ==
    /\ running = NoTask
    /\ nAttempts < MaxAttempts
    /\ nAttempts' = nAttempts + 1
    /\ loading' = TRUE
    /\ error' = NULL
    /\ IF webcamRef
          THEN /\ task' = [task EXCEPT ![nAttempts + 1].pc = "capture",
                                       ![nAttempts + 1].before = result]
               /\ running' = nAttempts + 1
          ELSE /\ task' = [task EXCEPT ![nAttempts + 1].pc = "done",
                                       ![nAttempts + 1].outcome = "noop"]
               /\ running' = running
    /\ UNCHANGED <<webcamRef, result, console>>

\* Variant: the controller itself ignores a call made while loading is true.
InvokeIgnoredWhileLoading ==
    /\ running = NoTask
    /\ nAttempts < MaxAttempts
    /\ nAttempts' = nAttempts + 1
    /\ IF webcamRef /\ ~loading
          THEN /\ task' = [task EXCEPT ![nAttempts + 1].pc = "enter",
                                       ![nAttempts + 1].before = result]
               /\ running' = nAttempts + 1
          ELSE /\ task' = [task EXCEPT ![nAttempts + 1].pc = "done",
                                       ![nAttempts + 1].outcome = "noop"]
               /\ running' = running
    /\ UNCHANGED <<webcamRef, result, loading, error, console>>

\* captureAndCheck is called (line 23); line 24 returns at once without a ref.
Invoke ==
    /\ running = NoTask
    /\ nAttempts < MaxAttempts
    /\ nAttempts' = nAttempts + 1
    /\ IF webcamRef
          THEN /\ task' = [task EXCEPT ![nAttempts + 1].pc = "enter",
                                       ![nAttempts + 1].before = result]
               /\ running' = nAttempts + 1
          ELSE /\ task' = [task EXCEPT ![nAttempts + 1].pc = "done",
                                       ![nAttempts + 1].outcome = "noop"]
               /\ running' = running
    /\ UNCHANGED <<webcamRef, result, loading, error, console>>

\* onClick of the rendered, enabled button (lines 85-86).
Click ==
    /\ webcamRef
    /\ ~ButtonDisabled
    /\ Invoke

\* Variant: entering also clears the previous result.
EnterClearResult(t) ==
    /\ running = t
    /\ task[t].pc = "enter"
    /\ loading' = TRUE
    /\ error' = NULL
    /\ result' = NULL
    /\ task' = [task EXCEPT ![t].pc = "capture"]
    /\ UNCHANGED <<webcamRef, nAttempts, running, console>>

\* Variant: the frame is awaited (await getScreenshot()), so the invocation
\* suspends right after lines 26-27.
EnterThenSuspend(t) ==
    /\ running = t
    /\ task[t].pc = "enter"
    /\ loading' = TRUE
    /\ error' = NULL
    /\ task' = [task EXCEPT ![t].pc = "capture"]
    /\ running' = NoTask
    /\ UNCHANGED <<webcamRef, result, nAttempts, console>>

\* Variant: setError(null) is missing at line 27.
EnterKeepError(t) ==
    /\ running = t
    /\ task[t].pc = "enter"
    /\ loading' = TRUE
    /\ task' = [task EXCEPT ![t].pc = "capture"]
    /\ UNCHANGED <<webcamRef, result, error, nAttempts, running, console>>

\* Lines 26-27: setLoading(true); setError(null).
Enter(t) ==
    /\ running = t
    /\ task[t].pc = "enter"
    /\ loading' = TRUE
    /\ error' = NULL
    /\ task' = [task EXCEPT ![t].pc = "capture"]
    /\ UNCHANGED <<webcamRef, result, nAttempts, running, console>>

\* Lines 30-31: getScreenshot() and the test of its result.
GetScreenshot(t) ==
    /\ running = t
    /\ task[t].pc = "capture"
    /\ \E shot \in Screenshots :
          task' = [task EXCEPT ![t].imageSrc = shot,
                               ![t].pc = IF shot = NULL THEN "noframe" ELSE "fetch"]
    /\ UNCHANGED <<webcamRef, result, loading, error, nAttempts, running, console>>

\* Variant: the no-frame path shows the message of the catch block.
NoFrameBackendMsg(t) ==
    /\ running = t
    /\ task[t].pc = "noframe"
    /\ error' = BackendErrorMsg
    /\ loading' = FALSE
    /\ task' = [task EXCEPT ![t] = [IdleTask EXCEPT !.pc = "done",
                                                   !.outcome = "noframe",
                                                   !.fetches = task[t].fetches,
                                                   !.posts = task[t].posts]]
    /\ running' = NoTask
    /\ UNCHANGED <<webcamRef, result, nAttempts, console>>

\* Variant: the return of line 34 is missing, the code falls into the try block.
NoFrameNoReturn(t) ==
    /\ running = t
    /\ task[t].pc = "noframe"
    /\ error' = CaptureErrorMsg
    /\ loading' = FALSE
    /\ task' = [task EXCEPT ![t].pc = "fetch"]
    /\ UNCHANGED <<webcamRef, result, nAttempts, running, console>>

\* Variant: setLoading(false) is missing at line 33.
NoFrameKeepLoading(t) ==
    /\ running = t
    /\ task[t].pc = "noframe"
    /\ error' = CaptureErrorMsg
    /\ task' = [task EXCEPT ![t] = [IdleTask EXCEPT !.pc = "done",
                                                   !.outcome = "noframe",
                                                   !.fetches = task[t].fetches,
                                                   !.posts = task[t].posts]]
    /\ running' = NoTask
    /\ UNCHANGED <<webcamRef, result, loading, nAttempts, console>>

\* Variant: the no-frame path also clears the result.
NoFrameClearResult(t) ==
    /\ running = t
    /\ task[t].pc = "noframe"
    /\ error' = CaptureErrorMsg
    /\ loading' = FALSE
    /\ result' = NULL
    /\ task' = [task EXCEPT ![t] = [IdleTask EXCEPT !.pc = "done",
                                                   !.outcome = "noframe",
                                                   !.fetches = task[t].fetches,
                                                   !.posts = task[t].posts]]
    /\ running' = NoTask
    /\ UNCHANGED <<webcamRef, nAttempts, console>>

\* Lines 32-34: no frame: setError, setLoading(false), return.
NoFrame(t) ==
    /\ running = t
    /\ task[t].pc = "noframe"
    /\ error' = CaptureErrorMsg
    /\ loading' = FALSE
    /\ task' = [task EXCEPT ![t] = [IdleTask EXCEPT !.pc = "done",
                                                   !.outcome = "noframe",
                                                   !.fetches = task[t].fetches,
                                                   !.posts = task[t].posts]]
    /\ running' = NoTask
    /\ UNCHANGED <<webcamRef, result, nAttempts, console>>

\* Line 39: fetch(imageSrc) is issued and awaited: the invocation suspends.
FetchDataUrl(t) ==
    /\ running = t
    /\ task[t].pc = "fetch"
    /\ task' = [task EXCEPT ![t].pc = "awaitFetch",
                            ![t].fetches = task[t].fetches + 1]
    /\ running' = NoTask
    /\ UNCHANGED <<webcamRef, result, loading, error, nAttempts, console>>

\* Variant: the decoding of line 39 stands outside the try block, so its
\* rejection leaves the function at once.
FetchSettleOutsideTry(t) ==
    /\ running = NoTask
    /\ task[t].pc = "awaitFetch"
    /\ \E ok \in BOOLEAN :
          IF ok
             THEN task' = [task EXCEPT ![t].pc = "awaitBlob"]
             ELSE task' = [task EXCEPT ![t] = [IdleTask EXCEPT !.pc = "done",
                                                              !.outcome = "failed",
                                                              !.fetches = task[t].fetches,
                                                              !.posts = task[t].posts]]
    /\ UNCHANGED <<webcamRef, result, loading, error, nAttempts, running, console>>

\* The fetch of line 39 settles: line 40 calls response.blob() and awaits it,
\* or the rejection enters the catch block.
FetchSettle(t) ==
    /\ running = NoTask
    /\ task[t].pc = "awaitFetch"
    /\ \E ok \in BOOLEAN :
          IF ok
             THEN /\ task' = [task EXCEPT ![t].pc = "awaitBlob"]
                  /\ running' = NoTask
             ELSE /\ task' = [task EXCEPT ![t].pc = "catch", ![t].err = FetchError]
                  /\ running' = t
    /\ UNCHANGED <<webcamRef, result, loading, error, nAttempts, console>>

\* The blob() of line 40 settles: lines 41-47 build the form and issue the POST,
\* or the rejection enters the catch block.
BlobSettle(t) ==
    /\ running = NoTask
    /\ task[t].pc = "awaitBlob"
    /\ \E ok \in BOOLEAN :
          IF ok
             THEN /\ task' = [task EXCEPT ![t].pc = "awaitPost",
                                          ![t].posts = task[t].posts + 1]
                  /\ running' = NoTask
             ELSE /\ task' = [task EXCEPT ![t].pc = "catch", ![t].err = BlobError]
                  /\ running' = t
    /\ UNCHANGED <<webcamRef, result, loading, error, nAttempts, console>>

\* The axios.post of line 47 settles: a 2xx response resumes at line 48, a
\* non-2xx status or a network error rejects into the catch block.
PostSettle(t) ==
    /\ running = NoTask
    /\ task[t].pc = "awaitPost"
    /\ \E r \in PostOutcomes :
          task' = [task EXCEPT ![t].pc = IF r.ok THEN "store" ELSE "catch",
                               ![t].apiResponse = r.data,
                               ![t].err = r.err]
    /\ running' = t
    /\ UNCHANGED <<webcamRef, result, loading, error, nAttempts, console>>

\* Variant: only the response of the latest call is stored.
SetResultLatestOnly(t) ==
    /\ running = t
    /\ task[t].pc = "store"
    /\ result' = IF t = nAttempts THEN task[t].apiResponse ELSE result
    /\ task' = [task EXCEPT ![t].pc = "finally", ![t].outcome = "success"]
    /\ UNCHANGED <<webcamRef, loading, error, nAttempts, running, console>>

\* Line 48: setResult(apiResponse.data).
SetResult(t) ==
    /\ running = t
    /\ task[t].pc = "store"
    /\ result' = task[t].apiResponse
    /\ task' = [task EXCEPT ![t].pc = "finally", ![t].outcome = "success"]
    /\ UNCHANGED <<webcamRef, loading, error, nAttempts, running, console>>

\* Variant: the catch block sends the request once more.
CatchErrorRetry(t) ==
    /\ running = t
    /\ task[t].pc = "catch"
    /\ console' = console \cup {task[t].err}
    /\ error' = BackendErrorMsg
    /\ task' = [task EXCEPT ![t].pc = "awaitPost",
                            ![t].posts = task[t].posts + 1,
                            ![t].outcome = "failed"]
    /\ running' = NoTask
    /\ UNCHANGED <<webcamRef, result, loading, nAttempts>>

\* Variant: the catch block also clears the result.
CatchErrorClearResult(t) ==
    /\ running = t
    /\ task[t].pc = "catch"
    /\ console' = console \cup {task[t].err}
    /\ error' = BackendErrorMsg
    /\ result' = NULL
    /\ task' = [task EXCEPT ![t].pc = "finally", ![t].outcome = "failed"]
    /\ UNCHANGED <<webcamRef, loading, nAttempts, running>>

\* Variant: the catch block shows the low-level error, setError(String(err)).
CatchErrorRawMessage(t) ==
    /\ running = t
    /\ task[t].pc = "catch"
    /\ console' = console \cup {task[t].err}
    /\ error' = task[t].err
    /\ task' = [task EXCEPT ![t].pc = "finally", ![t].outcome = "failed"]
    /\ UNCHANGED <<webcamRef, result, loading, nAttempts, running>>

\* Lines 49-51: console.error("API Error:", err); setError(...).
CatchError(t) ==
    /\ running = t
    /\ task[t].pc = "catch"
    /\ console' = console \cup {task[t].err}
    /\ error' = BackendErrorMsg
    /\ task' = [task EXCEPT ![t].pc = "finally", ![t].outcome = "failed"]
    /\ UNCHANGED <<webcamRef, result, loading, nAttempts, running>>

\* Variant: loading counts the cycles in flight and falls only with the last.
FinallyCounted(t) ==
    /\ running = t
    /\ task[t].pc = "finally"
    /\ loading' = (\E s \in Tasks \ {t} : task[s].pc \in InProgress)
    /\ task' = [task EXCEPT ![t] = [IdleTask EXCEPT !.pc = "done",
                                                   !.outcome = task[t].outcome,
                                                   !.fetches = task[t].fetches,
                                                   !.posts = task[t].posts]]
    /\ running' = NoTask
    /\ UNCHANGED <<webcamRef, result, error, nAttempts, console>>

\* Variant: setLoading(false) is missing at line 53.
FinallyKeepLoading(t) ==
    /\ running = t
    /\ task[t].pc = "finally"
    /\ task' = [task EXCEPT ![t] = [IdleTask EXCEPT !.pc = "done",
                                                   !.outcome = task[t].outcome,
                                                   !.fetches = task[t].fetches,
                                                   !.posts = task[t].posts]]
    /\ running' = NoTask
    /\ UNCHANGED <<webcamRef, result, loading, error, nAttempts, console>>

\* Lines 52-54: finally: setLoading(false); the invocation returns.
Finally(t) ==
    /\ running = t
    /\ task[t].pc = "finally"
    /\ loading' = FALSE
    /\ task' = [task EXCEPT ![t] = [IdleTask EXCEPT !.pc = "done",
                                                   !.outcome = task[t].outcome,
                                                   !.fetches = task[t].fetches,
                                                   !.posts = task[t].posts]]
    /\ running' = NoTask
    /\ UNCHANGED <<webcamRef, result, error, nAttempts, console>>

\* The steps of invocation t after its call.
Step(t) ==
    \/ Enter(t)
    \/ GetScreenshot(t)
    \/ NoFrame(t)
    \/ FetchDataUrl(t)
    \/ FetchSettle(t)
    \/ BlobSettle(t)
    \/ PostSettle(t)
    \/ SetResult(t)
    \/ CatchError(t)
    \/ Finally(t)

\* The App as composed: captureAndCheck is reached through the button only.
Next ==
    \/ Mount
    \/ Click
    \/ \E t \in Tasks : Step(t)

Spec == Init /\ [][Next]_vars

\* The controller alone: captureAndCheck may be called at any time, whatever
\* the flags and the ref are.
NextDirect ==
    \/ Mount
    \/ Unmount
    \/ Invoke
    \/ \E t \in Tasks : Step(t)

SpecDirect == Init /\ [][NextDirect]_vars

(***************************************************************************)
(* Exceptions thrown by the handler's own statements.  try/catch/finally   *)
(* (lines 37-54) sends a throw inside the try block to the catch block and *)
(* a throw inside the catch block to the finally block.                    *)
(***************************************************************************)

\* Line 48 throws while storing the response: control enters the catch block.
SetResultThrows(t) ==
    /\ running = t
    /\ task[t].pc = "store"
    /\ task' = [task EXCEPT ![t].pc = "catch", ![t].err = HandlerError]
    /\ UNCHANGED <<webcamRef, result, loading, error, nAttempts, running, console>>

\* Variant: setLoading(false) follows the try/catch instead of sitting in a
\* finally block, so a throw inside the catch block skips it.
CatchThrowsSkipsFinally(t) ==
    /\ running = t
    /\ task[t].pc = "catch"
    /\ task' = [task EXCEPT ![t] = [IdleTask EXCEPT !.pc = "done",
                                                   !.outcome = "threw",
                                                   !.fetches = task[t].fetches,
                                                   !.posts = task[t].posts]]
    /\ running' = NoTask
    /\ UNCHANGED <<webcamRef, result, loading, error, nAttempts, console>>

\* Line 50 throws inside the catch block: the finally block still runs.
CatchThrows(t) ==
    /\ running = t
    /\ task[t].pc = "catch"
    /\ task' = [task EXCEPT ![t].pc = "finally", ![t].outcome = "threw"]
    /\ UNCHANGED <<webcamRef, result, loading, error, nAttempts, running, console>>

\* The App as composed, with the handler's statements allowed to throw.
NextFaulty ==
    \/ Mount
    \/ Click
    \/ \E t \in Tasks : Step(t)
    \/ \E t \in Tasks : SetResultThrows(t)
    \/ \E t \in Tasks : CatchThrows(t)

\* The event loop runs every continuation that is ready, and every issued
\* request settles; nothing obliges the user to press the button.
Fairness == \A t \in Tasks : WF_vars(Step(t) \/ SetResultThrows(t) \/ CatchThrows(t))

FairSpecFaulty == Init /\ [][NextFaulty]_vars /\ Fairness

(***************************************************************************)
(* Properties                                                              *)
(***************************************************************************)

\* Invocation t returns in this step.
Ends(t) == task[t].pc # "done" /\ task'[t].pc = "done"

\* An instant React renders: no synchronous code is running.
Observed == running = NoTask

\* What lines 76, 93 and 100 render.
LoadingOverlay == loading
ErrorPanel == error # NULL
ResultPanel == result # NULL

\* C1: an attempt whose getScreenshot returned no frame ends in its very next
\* step, with loading = false and a non-null error, having issued neither the
\* data-URL fetch nor the POST.
C1_NoFrameFails ==
    [][\A t \in Tasks :
          (task[t].pc = "noframe" /\ task'[t] # task[t])
             => /\ task'[t].pc = "done"
                /\ loading' = FALSE
                /\ error' # NULL
                /\ task'[t].fetches = 0
                /\ task'[t].posts = 0]_vars

C1_Witness ==
    \E t \in Tasks :
        /\ task[t].pc = "done" /\ task[t].outcome = "noframe"
        /\ task[t].fetches = 0 /\ task[t].posts = 0
        /\ ~loading /\ error = CaptureErrorMsg

\* C2: an attempt that got a frame and whose POST succeeded ends with
\* loading = false, error = null and result equal to the response body, also
\* when an earlier attempt had left an error.
C2_SuccessStoresResult ==
    [][\A t \in Tasks :
          (Ends(t) /\ task[t].apiResponse # NULL)
             => /\ loading' = FALSE
                /\ error' = NULL
                /\ result' = task[t].apiResponse]_vars

C2_Witness ==
    /\ task[1].pc = "done" /\ task[1].outcome \in {"noframe", "failed"}
    /\ task[2].pc = "done" /\ task[2].outcome = "success" /\ task[2].posts = 1
    /\ nAttempts = 2
    /\ ~loading /\ error = NULL /\ result \in HygieneResult

\* C3: an attempt whose POST failed (non-2xx status or network error) ends with
\* loading = false, a non-null error, and result as it was before the attempt.
C3_FailureKeepsResult ==
    [][\A t \in Tasks :
          (Ends(t) /\ task[t].err \in PostErrors)
             => /\ loading' = FALSE
                /\ error' # NULL
                /\ result' = task[t].before]_vars

C3_Witness ==
    /\ task[1].outcome = "success"
    /\ task[2].pc = "done" /\ task[2].outcome = "failed" /\ task[2].posts = 1
    /\ task[3].pc = "done" /\ task[3].outcome = "failed" /\ task[3].posts = 1
    /\ console = PostErrors
    /\ ~loading /\ error = BackendErrorMsg /\ result \in HygieneResult

\* C4 as stated: at every observed instant loading is true exactly when a
\* classification request (the POST) is in flight.
C4_Original ==
    Observed => (loading <=> \E t \in Tasks : task[t].pc = "awaitPost")

\* C4 as amended: at every observed instant loading is true exactly when an
\* attempt is suspended at one of its awaits: decoding the frame (lines 39-40,
\* before the POST is issued) or awaiting the POST (line 47).
C4_LoadingWhileAwaiting ==
    Observed => (loading <=> \E t \in Tasks : task[t].pc \in Awaiting)

C4_Witness ==
    \E t \in Tasks :
        /\ Observed /\ loading
        /\ task[t].pc \in {"awaitFetch", "awaitBlob"} /\ task[t].posts = 0

\* C5 as stated: the error panel and the result panel are never rendered
\* together.
C5_Original == Observed => ~(ErrorPanel /\ ResultPanel)

\* C5 as amended: the loading overlay and the error panel are never rendered
\* together; the result panel is rendered beside the error panel only after a
\* failed attempt that followed a successful one.
C5_OverlayExcludesError ==
    Observed =>
        /\ ~(LoadingOverlay /\ ErrorPanel)
        /\ (ErrorPanel /\ ResultPanel) =>
              \E s, t \in Tasks :
                  /\ s < t
                  /\ task[s].outcome = "success"
                  /\ task[t].outcome \in {"noframe", "failed"}

C5_Witness ==
    /\ Observed /\ ~LoadingOverlay /\ ErrorPanel /\ ResultPanel
    /\ task[1].outcome = "success" /\ task[2].outcome = "failed"

\* C6: result is null until the first successful classification and non-null
\* ever after; no step sets a non-null result back to null, and an attempt
\* that does not succeed leaves result as it was before the attempt.
C6_ResultNeverReset ==
    /\ []((\E t \in Tasks : task[t].outcome = "success") <=> result # NULL)
    /\ [][/\ result # NULL => result' # NULL
          /\ \A t \in Tasks :
                (Ends(t) /\ task'[t].outcome # "success")
                   => result' = (IF task[t].pc = "idle" THEN result
                                                         ELSE task[t].before)]_vars

C6_Witness ==
    /\ task[1].outcome = "success"
    /\ task[2].pc = "done" /\ task[2].outcome = "noframe"
    /\ task[3].pc = "done" /\ task[3].outcome = "failed"
    /\ result \in HygieneResult

\* C7: captureAndCheck called without a webcam ref changes none of loading,
\* error and result, returns at once and issues no network call.
C7_NoRefIsNoOp ==
    /\ [](\A t \in Tasks :
             task[t].outcome = "noop"
                => task[t].pc = "done" /\ task[t].fetches = 0 /\ task[t].posts = 0)
    /\ [][\A t \in Tasks :
             (task[t].pc = "idle" /\ task'[t].pc # "idle" /\ ~webcamRef)
                => /\ UNCHANGED <<loading, error, result>>
                   /\ task'[t].outcome = "noop"]_vars

C7_Witness ==
    /\ task[1].pc = "done" /\ task[1].outcome = "noframe"
    /\ task[2].pc = "done" /\ task[2].outcome = "noop"
    /\ nAttempts = 2
    /\ ~loading /\ error = CaptureErrorMsg

\* C8: every attempt that passed line 24 eventually returns having set
\* loading = false, whatever path it takes: success, a rejected request, or a
\* throw inside the try or the catch block.
C8_LoadingEventuallyFalse ==
    \A t \in Tasks :
        (task[t].pc \in InProgress) ~> (task[t].pc = "done" /\ loading = FALSE)

C8_Witness ==
    \E t \in Tasks :
        task[t].pc = "done" /\ task[t].outcome = "threw" /\ task[t].posts = 1
            /\ ~loading

\* C9: through the button, at most one cycle is in progress at any time, and
\* a cycle starts only while loading is false and no other cycle is in progress.
C9_OneCycleAtATime ==
    /\ [](Cardinality({t \in Tasks : task[t].pc \in InProgress}) <= 1)
    /\ [][\A t \in Tasks :
             (task[t].pc = "idle" /\ task'[t].pc \in InProgress)
                => /\ loading = FALSE
                   /\ \A s \in Tasks : task[s].pc \notin InProgress]_vars

C9_Witness ==
    /\ task[1].pc = "done" /\ task[1].posts = 1
    /\ task[2].pc = "awaitPost"
    /\ loading

\* C10: each failing attempt clears the error on entry (error = null from line
\* 27 until the attempt sets its own) and ends with exactly the fixed message of
\* its failure kind, also when the attempt before it failed.
C10_FreshErrorEachFailure ==
    /\ [](\A t \in Tasks :
             task[t].pc \in (InProgress \ {"enter", "finally"}) => error = NULL)
    /\ [][\A t \in Tasks :
             Ends(t) =>
                /\ task[t].pc = "noframe" => error' = CaptureErrorMsg
                /\ (task[t].pc = "finally" /\ task[t].outcome = "failed")
                      => error' = BackendErrorMsg]_vars

C10_Witness ==
    /\ task[1].pc = "done" /\ task[1].outcome \in {"noframe", "failed"}
    /\ task[2].pc = "done" /\ task[2].outcome = "failed"
    /\ nAttempts = 2
    /\ error = BackendErrorMsg

\* The low-level errors a promise of lines 39, 40 or 47 may reject with.
LowLevelErrors == {FetchError, BlobError} \cup PostErrors

\* The positions at which an invocation runs synchronous code.
Synchronous == InProgress \ Awaiting

\* C11: lines 26-27 set loading = true and error = null and leave result alone,
\* before any frame is requested; while an attempt is suspended at an await
\* error is null and result is what it was before the attempt.
C11_EnterKeepsResult ==
    /\ [](\A t \in Tasks :
             task[t].pc \in Awaiting => error = NULL /\ result = task[t].before)
    /\ [][\A t \in Tasks :
             (task[t].pc = "enter" /\ task'[t].pc # "enter")
                => /\ loading' = TRUE
                   /\ error' = NULL
                   /\ result' = result
                   /\ task'[t].pc = "capture"
                   /\ task'[t].imageSrc = NULL
                   /\ task'[t].fetches = 0]_vars

C11_Witness ==
    /\ task[1].outcome = "success"
    /\ task[2].pc = "done" /\ task[2].outcome = "failed"
    /\ task[3].pc = "awaitPost"
    /\ Observed /\ loading /\ error = NULL /\ result \in HygieneResult

\* C12 as stated: an attempt in progress is suspended, at an observed instant,
\* only at the POST.
C12_Original ==
    \A t \in Tasks :
        (Observed /\ task[t].pc \in InProgress) => task[t].pc = "awaitPost"

\* C12 as amended: an attempt suspends at three awaits, the fetch of the data
\* URL (line 39), blob() (line 40) and the POST (line 47), and nowhere else: no
\* other event (mount, unmount, another call) interleaves with its synchronous
\* code, in particular none between its start and the issue of the data-URL
\* fetch; other events do interleave while the frame is decoded.
C12_ThreeSuspensionPoints ==
    /\ [](\A t \in Tasks :
             (Observed /\ task[t].pc \in InProgress) => task[t].pc \in Awaiting)
    /\ [][\A t \in Tasks :
             task[t].pc \in Synchronous
                => /\ webcamRef' = webcamRef
                   /\ nAttempts' = nAttempts
                   /\ \A s \in Tasks \ {t} : task'[s] = task[s]]_vars

C12_Witness ==
    /\ Observed
    /\ task[1].pc = "awaitBlob" /\ task[1].posts = 0
    /\ task[2].pc = "awaitFetch" /\ task[2].posts = 0
    /\ ~webcamRef

\* C13: an attempt issues at most one POST, and only after it obtained a frame
\* and issued the data-URL fetch; once an attempt has failed it issues nothing
\* more and starts no other attempt; so the POSTs issued number at most the
\* attempts that obtained a frame.
C13_AtMostOnePost ==
    /\ [](\A t \in Tasks :
             /\ task[t].posts <= 1
             /\ task[t].fetches <= 1
             /\ task[t].posts <= task[t].fetches
             /\ task[t].outcome \in {"noop", "noframe"} => task[t].fetches = 0)
    /\ [](Cardinality({t \in Tasks : task[t].posts > 0})
             <= Cardinality({t \in Tasks : task[t].fetches > 0}))
    /\ [][\A t \in Tasks :
             task[t].pc \in {"noframe", "catch", "finally", "done"}
                => /\ task'[t].posts = task[t].posts
                   /\ task'[t].fetches = task[t].fetches
                   /\ task'[t].pc \notin Awaiting
                   /\ (task'[t] # task[t] => nAttempts' = nAttempts)]_vars

C13_Witness ==
    /\ task[1].pc = "done" /\ task[1].outcome = "failed" /\ task[1].posts = 1
    /\ task[2].pc = "done" /\ task[2].outcome = "noframe" /\ task[2].posts = 0
    /\ task[3].pc = "done" /\ task[3].outcome = "failed" /\ task[3].posts = 0
    /\ console = {StatusError, FetchError}

\* C14: a call made with a ref starts a full cycle whatever loading is, a call
\* can be made whenever no synchronous code runs, and no step of one
\* invocation changes another one (nothing is cancelled or merged).
C14_OverlapNotPrevented ==
    /\ []((Observed /\ nAttempts < MaxAttempts) => ENABLED Invoke)
    /\ [][\A t \in Tasks :
             (task[t].pc = "idle" /\ task'[t].pc # "idle" /\ webcamRef)
                => task'[t].pc = "enter"]_vars
    /\ [][\A s, t \in Tasks :
             (s # t /\ task'[t] # task[t]) => task'[s] = task[s]]_vars

C14_Witness ==
    /\ Observed /\ loading
    /\ task[1].pc = "awaitPost" /\ task[1].posts = 1
    /\ task[2].pc = "awaitPost" /\ task[2].posts = 1

\* C15: error is null or one of two different fixed messages, never the text
\* of a low-level error; the capture message appears only in the no-frame step
\* and the backend message only in the catch block.
C15_TwoFixedMessages ==
    /\ [](/\ error \in {NULL, CaptureErrorMsg, BackendErrorMsg}
          /\ CaptureErrorMsg # BackendErrorMsg
          /\ error \notin LowLevelErrors)
    /\ [][/\ (error' = CaptureErrorMsg /\ error # CaptureErrorMsg)
                => \E t \in Tasks : task[t].pc = "noframe" /\ task'[t].pc = "done"
          /\ (error' = BackendErrorMsg /\ error # BackendErrorMsg)
                => \E t \in Tasks : task[t].pc = "catch" /\ task'[t].pc = "finally"
          /\ \A t \in Tasks :
                /\ (task[t].pc = "noframe" /\ task'[t].pc # "noframe")
                      => error' = CaptureErrorMsg
                /\ (task[t].pc = "catch" /\ task'[t].pc # "catch")
                      => error' = BackendErrorMsg]_vars

C15_Witness ==
    /\ task[1].pc = "done" /\ task[1].outcome = "noframe"
    /\ task[2].pc = "finally" /\ task[2].outcome = "failed"
    /\ task[2].err \in PostErrors /\ task[2].err \in console
    /\ error = BackendErrorMsg

\* C16: an attempt that issued the data-URL fetch and never the POST (decoding
\* failed) ends with loading = false, result as before the attempt and the
\* backend message as error.
C16_DecodeFailure ==
    /\ [][\A t \in Tasks :
             (Ends(t) /\ task[t].fetches = 1 /\ task'[t].posts = 0)
                => /\ loading' = FALSE
                   /\ error' = BackendErrorMsg
                   /\ result' = result
                   /\ task[t].pc = "finally"
                   /\ result = task[t].before]_vars
    /\ [](\A t \in Tasks :
             task[t].err \in {FetchError, BlobError} => task[t].posts = 0)

C16_Witness ==
    /\ task[1].outcome = "success"
    /\ task[2].pc = "done" /\ task[2].outcome = "failed"
    /\ task[2].fetches = 1 /\ task[2].posts = 0
    /\ nAttempts = 2
    /\ ~loading /\ error = BackendErrorMsg /\ result \in HygieneResult
    /\ console \subseteq {FetchError, BlobError} /\ console # {}

\* C17: every invocation that returns through line 33 or line 53 sets loading
\* to false, whatever the other invocations are doing: loading is a boolean,
\* not a count of the requests in flight.
C17_LoadingIsNotACount ==
    [][\A t \in Tasks :
          (Ends(t) /\ task[t].pc \in {"noframe", "finally"}) => loading' = FALSE]_vars

C17_Witness ==
    /\ Observed /\ ~loading /\ ~ButtonDisabled
    /\ task[1].pc = "done" /\ task[1].posts = 1
    /\ task[2].pc = "awaitPost"

\* C18: a successful response is stored as soon as it arrives (no other event
\* comes between its arrival and line 48), whichever call it answers, and
\* result changes in no other step; the catch block sets error and leaves
\* result alone.  So result is the body of the response that arrived last.
C18_LastResponseWins ==
    /\ [](\A t \in Tasks : task[t].pc = "store" => running = t)
    /\ [][/\ \A t \in Tasks :
                (task[t].pc = "store" /\ task'[t].pc # "store")
                   => result' = task[t].apiResponse /\ task'[t].pc = "finally"
          /\ result' # result
                => \E t \in Tasks : task[t].pc = "store" /\ result' = task[t].apiResponse
          /\ \A t \in Tasks :
                (task[t].pc = "catch" /\ task'[t].pc # "catch")
                   => result' = result /\ error' # NULL]_vars

C18_Witness ==
    /\ task[1].pc = "done" /\ task[1].outcome = "failed" /\ task[1].posts = 1
    /\ task[3].pc = "done" /\ task[3].outcome = "success"
    /\ task[2].pc = "finally" /\ task[2].outcome = "success"
    /\ result = task[2].apiResponse
    /\ error = BackendErrorMsg

====
